---------------------------- MODULE Spec2Model ----------------------------
(***************************************************************************)
(* Model of OGRILI2DataSource (ogr/ogrsf_frmts/ili/ogrili2datasource.cpp), *)
(* the INTERLIS 2 transfer-container controller: constructor, Open,        *)
(* Create, ICreateLayer, TestCapability, GetLayer and the destructor.      *)
(*                                                                         *)
(* Strings that the code inspects (addresses, paths, file headers) are     *)
(* sequences of symbols; every I/O call the code makes is appended to the  *)
(* history variable io, every CPLError to errs.                            *)
(***************************************************************************)
EXTENDS Integers, Sequences, FiniteSets, TLC

(* ------------------------------ bounds --------------------------------- *)

\* most layers created through ICreateLayer on one container
MaxLayers == 2

\* most model descriptors a loaded catalog holds
MaxModels == 2

\* most layers the external reader materialises in Open
MaxReadLayers == 2

\* size of the probe buffer szHeader (1000 in the source), in symbols
HeaderSize == 4

(* ---------------------------- value sets ------------------------------- *)

NULL == "NULL"

\* C truth values returned by Open, Create and TestCapability
FALSE_ == 0
TRUE_ == 1

ModelPath == <<"m", ".ili">>

\* output / data paths, as symbol sequences
Paths ==
    { <<"out", ".xtf">>,
      <<"/vsistdout/">>,
      <<"/vsistdout/", "x">>,
      <<"/vsigzip/", "out", ".xtf">>,
      <<"/vsizip/", "a", ".zip">>,
      <<"/vsizip/", "a", ".ZIP">>,
      <<"/vsizip/", "a", ".zip", "/", "in", ".xtf">>,
      <<"/vsizip/", "a", ".zip", "/", "b", ".zip">> }

\* composite addresses handed to Create
Addresses ==
    Paths
    \cup { p \o <<",">> \o ModelPath : p \in Paths }
    \cup { <<>>, <<",">>, <<",">> \o ModelPath,
           <<"out", ".xtf", ",", ",">> \o ModelPath }

DataPath == <<"in", ".xtf">>

\* composite addresses handed to Open
OpenAddresses ==
    { <<>>, <<",">>, DataPath, DataPath \o <<",">> \o ModelPath,
      <<",">> \o ModelPath, DataPath \o <<",", ",">> \o ModelPath }

\* names of model descriptors, baskets and tables a model file may define
ModelNames == {"m1", "m2"}
BasketNames == {"M.Topic"}

\* the basket name a catalog holds before any model file was read
UnsetBasketName == "basket0"
TableNames == {"T1"}

\* layer names requested from ICreateLayer
LayerNames == {"T1", "X"}

\* geometry types of a geometry-field descriptor
GeomTypes == {"wkbPoint"}

\* capability names asked of TestCapability
CapNames == {"CreateLayer", "CurveGeometries", "ZGeometries", "createlayer",
             "DeleteLayer"}

\* indices asked of GetLayer: every index of a full registry and one beyond
Indices == 0..(IF MaxLayers > MaxReadLayers THEN MaxLayers ELSE MaxReadLayers)

\* "interlis.ch/INTERLIS2", the namespace marker, as two symbols
Marker == <<"i", "2">>

(* --------------------------- sequence helpers --------------------------- *)

RECURSIVE SeqsUpTo(_, _)
SeqsUpTo(S, n) ==
    IF n = 0 THEN { <<>> }
    ELSE LET shorter == SeqsUpTo(S, n - 1)
         IN  shorter \cup { Append(s, x) : s \in shorter, x \in S }

Last(s) == s[Len(s)]

Contains(s, sub) ==
    \E k \in 0..(Len(s) - Len(sub)) : SubSeq(s, k + 1, k + Len(sub)) = sub

(* ----------------------- CPL string functions --------------------------- *)

\* CSLTokenizeString2(str, ",", 0): split at commas, empty tokens dropped
RECURSIVE TokenizeFrom(_, _, _)
TokenizeFrom(s, cur, acc) ==
    IF s = <<>>
    THEN IF cur = <<>> THEN acc ELSE Append(acc, cur)
    ELSE IF Head(s) = ","
         THEN TokenizeFrom(Tail(s), <<>>,
                           IF cur = <<>> THEN acc ELSE Append(acc, cur))
         ELSE TokenizeFrom(Tail(s), Append(cur, Head(s)), acc)

CSLTokenizeString2(s) == TokenizeFrom(s, <<>>, <<>>)

\* CPLStrdup(filenames[0]): a NULL entry is duplicated as the empty string
FirstToken(filenames) == IF Len(filenames) = 0 THEN <<>> ELSE filenames[1]

\* tolower of the symbols that carry letters whose case differs in the model
Lower(sym) ==
    CASE sym = ".ZIP" -> ".zip"
      [] sym = "CreateLayer" -> "createlayer"
      [] sym = "CurveGeometries" -> "curvegeometries"
      [] sym = "ZGeometries" -> "zgeometries"
      [] sym = "DeleteLayer" -> "deletelayer"
      [] OTHER -> sym

\* EQUAL(a, b): case-insensitive comparison
EQUAL(a, b) == Lower(a) = Lower(b)

\* STARTS_WITH(pszName, prefix) for a one-symbol prefix
STARTS_WITH(path, prefix) == Len(path) > 0 /\ path[1] = prefix

\* CPLGetExtensionSafe: the text after the last dot of the last component
CPLGetExtensionSafe(path) ==
    IF Len(path) > 0 /\ Last(path) \in {".zip", ".ZIP", ".xtf", ".ili"}
    THEN Last(path)
    ELSE ""

\* CPLFormFilenameSafe(pszName, "out.xtf", nullptr)
CPLFormFilenameSafe(path) ==
    IF Len(path) > 0 /\ Last(path) = "/"
    THEN path \o <<"out", ".xtf">>
    ELSE path \o <<"/", "out", ".xtf">>

(* ------------------------------ state ---------------------------------- *)

VARIABLES
    phase,       \* "constructed", "used" (Open or Create was called), "destroyed"
    pszName,     \* NULL or the stored path
    imd,         \* *poImdReader, the model catalog
    poReader,    \* NULL or "reader"
    fpOutput,    \* NULL or "out"
    nLayers,     \* number of entries of papoLayers
    papoLayers,  \* layer ids created by ICreateLayer, in array order
    listLayer,   \* layer ids obtained from the reader in Open, in list order
    layers,      \* every layer object ever allocated; a layer's id is its index
    io,          \* history of I/O and collaborator calls
    errs,        \* history of CPLError calls
    call,        \* the last operation called and its arguments
    ret,         \* what the last operation returned (0 is nullptr / FALSE)
    entry        \* the Open or Create call made on the container, with its result

vars == <<phase, pszName, imd, poReader, fpOutput, nLayers, papoLayers,
          listLayer, layers, io, errs, call, ret, entry>>

Ev(op, h, a, n) == [op |-> op, h |-> h, a |-> a, n |-> n]

Err(cls, code) == [cls |-> cls, code |-> code]

Call(op, s, n, x) == [op |-> op, s |-> s, n |-> n, x |-> x]

Entry(op, s, o, n, r) == [op |-> op, s |-> s, opt |-> o, n |-> n, ret |-> r]

(* ------------------------- the model catalog --------------------------- *)

\* ImdReader(2): a catalog before any model file was read
EmptyCatalog ==
    [modelInfos |-> <<>>, mainBasketName |-> UnsetBasketName, tables |-> {}]

\* what ImdReader::ReadModel may leave in the catalog (unparsable file: unchanged)
Catalogs ==
    { EmptyCatalog }
    \cup { [modelInfos |-> ms, mainBasketName |-> b, tables |-> ts] :
             ms \in SeqsUpTo(ModelNames, MaxModels),
             b \in BasketNames,
             ts \in SUBSET TableNames }

\* the table definition the catalog holds for a table
TableDefn(name) ==
    [name |-> name, defn |-> "catalog", geomType |-> "wkbMultiPolygon",
     nFields |-> 2, reset |-> FALSE, alive |-> TRUE]

\* ImdReader::GetFeatureDefnInfo(name).GetTableDefnRef() is non-null
HasTableDefn(catalog, name) == name \in catalog.tables

(* ---------------------------- constructor ------------------------------ *)

Init ==
    /\ phase = "constructed"
    /\ pszName = NULL
    /\ imd = EmptyCatalog
    /\ poReader = NULL
    /\ fpOutput = NULL
    /\ nLayers = 0
    /\ papoLayers = <<>>
    /\ listLayer = <<>>
    /\ layers = <<>>
    /\ io = <<>>
    /\ errs = <<>>
    /\ call = Call("ctor", <<>>, 0, <<>>)
    /\ ret = 0
    /\ entry = Entry("none", <<>>, <<>>, 0, 0)

(* -------------------------------- Create ------------------------------- *)

\* (CSLCount(filenames) > 1) ? filenames[1] : nullptr, nullptr being <<>>
SecondToken(filenames) == IF Len(filenames) > 1 THEN filenames[2] ELSE <<>>

\* pszModelFilename == nullptr: the address has no second component
NoModelGiven_zero(filenames) == Len(filenames) = 0
NoModelGiven(filenames) == Len(filenames) <= 1

\* the name the output is opened under (the /vsizip/ rewrite included)
OutputName_verbatim(name) == name
OutputName(name) ==
    IF name = <<"/vsistdout/">> \/ STARTS_WITH(name, "/vsigzip/")
    THEN name
    ELSE IF STARTS_WITH(name, "/vsizip/")
         THEN IF EQUAL(CPLGetExtensionSafe(name), ".zip")
              THEN CPLFormFilenameSafe(name)
              ELSE name
         ELSE name

\* the access mode handed to VSIFOpenL
OutputMode(name) ==
    IF name = <<"/vsistdout/">> \/ STARTS_WITH(name, "/vsigzip/")
    THEN "wb"
    ELSE IF STARTS_WITH(name, "/vsizip/") THEN "wb" ELSE "wb+"

\* the <MODEL .../> entries, one per descriptor, in catalog order
ModelEntries(modelInfos) ==
    [k \in 1..Len(modelInfos) |-> <<"empty", "MODEL", modelInfos[k]>>]

\* the opening framing written by Create
Framing_unclosedModels(catalog) ==
    << <<"prolog", "xml">>, <<"open", "TRANSFER">>,
       <<"open", "HEADERSECTION">>, <<"open", "MODELS">> >>
    \o ModelEntries(catalog.modelInfos)
    \o << <<"close", "HEADERSECTION">>, <<"open", "DATASECTION">>,
          <<"open", catalog.mainBasketName, catalog.mainBasketName>> >>
Framing(catalog) ==
    << <<"prolog", "xml">>, <<"open", "TRANSFER">>,
       <<"open", "HEADERSECTION">>, <<"open", "MODELS">> >>
    \o ModelEntries(catalog.modelInfos)
    \o << <<"close", "MODELS">>, <<"close", "HEADERSECTION">>,
          <<"open", "DATASECTION">>,
          <<"open", catalog.mainBasketName, catalog.mainBasketName>> >>

\* VSIFPrintfL of each token to the stream
Writes(fp, tokens) == [k \in 1..Len(tokens) |-> Ev("write", fp, tokens[k], 0)]

\* what a Create does once the output is open: model load, then the framing
CreateBody_headerFirst(fp, modelFile, catalog) ==
    LET f == Framing(catalog)
    IN  Writes(fp, SubSeq(f, 1, 2))
        \o << Ev("ReadModel", "imd", modelFile, 0) >>
        \o Writes(fp, SubSeq(f, 3, Len(f)))
CreateBody(fp, modelFile, catalog) ==
    << Ev("ReadModel", "imd", modelFile, 0) >> \o Writes(fp, Framing(catalog))

\* VSIFOpenL(name, mode) returning fp: an open stream or nullptr
OpenEvent(fp, name, mode) ==
    Ev(IF fp = NULL THEN "openfail" ELSE "open", fp, name \o <<mode>>, 0)

\* fpOutput == nullptr after the open attempt
OutputOpenFailed_never(fp) == FALSE
OutputOpenFailed(fp) == fp = NULL

Create(pszFilename) ==
    /\ phase = "constructed"
    /\ phase' = "used"
    /\ call' = Call("Create", pszFilename, 0, <<>>)
    /\ LET filenames == CSLTokenizeString2(pszFilename)
           name      == FirstToken(filenames)
       IN  IF NoModelGiven(filenames)
           THEN /\ pszName' = name
                /\ errs' = Append(errs, Err("CE_Failure", "CPLE_AppDefined"))
                /\ ret' = FALSE_
                /\ UNCHANGED <<imd, fpOutput, io>>
           ELSE /\ pszName' = OutputName(name)
                /\ \E fp \in {NULL, "out"} :
                     /\ fpOutput' = fp
                     /\ IF OutputOpenFailed(fp)
                        THEN /\ io' = Append(io, OpenEvent(fp, OutputName(name),
                                                           OutputMode(name)))
                             /\ errs' = Append(errs, Err("CE_Failure",
                                                         "CPLE_OpenFailed"))
                             /\ ret' = FALSE_
                             /\ UNCHANGED imd
                        ELSE \E catalog \in Catalogs :
                             /\ imd' = catalog
                             /\ io' = Append(io, OpenEvent(fp, OutputName(name),
                                                           OutputMode(name)))
                                      \o CreateBody(fp, SecondToken(filenames),
                                                    catalog)
                             /\ ret' = TRUE_
                             /\ UNCHANGED errs
    /\ entry' = Entry("Create", pszFilename, <<>>, 0, ret')
    /\ UNCHANGED <<poReader, nLayers, papoLayers, listLayer, layers>>

(* ----------------------------- ICreateLayer ---------------------------- *)

\* fpOutput == nullptr: the container is not open for writing
NotWritable_never(fp) == FALSE
NotWritable(fp) == fp = NULL

\* poGeomFieldDefn ? poGeomFieldDefn->GetType() : wkbNone
RequestedType(geom) == IF geom = "nullptr" THEN "wkbNone" ELSE geom

\* new OGRFeatureDefn(pszLayerName) followed by SetGeomType(eType)
AdhocDefn_unknownType(name, eType) ==
    [name |-> name, defn |-> "adhoc", geomType |-> "wkbUnknown", nFields |-> 0,
     reset |-> FALSE, alive |-> TRUE]
AdhocDefn(name, eType) ==
    [name |-> name, defn |-> "adhoc", geomType |-> eType, nFields |-> 0,
     reset |-> FALSE, alive |-> TRUE]

\* nLayers++, CPLRealloc, papoLayers[nLayers - 1] = poLayer
RegistryAppend_front(registry, layer) == <<layer>> \o registry
RegistryAppend(registry, layer) == Append(registry, layer)

ICreateLayer(pszLayerName, geom) ==
    /\ phase # "destroyed"
    /\ call' = Call("ICreateLayer", <<pszLayerName, geom>>, 0, <<>>)
    /\ IF NotWritable(fpOutput)
       THEN /\ ret' = 0
            /\ UNCHANGED <<nLayers, papoLayers, layers, errs>>
       ELSE /\ nLayers < MaxLayers
            /\ LET eType == RequestedType(geom)
                   found == HasTableDefn(imd, pszLayerName)
                   layer == IF found THEN TableDefn(pszLayerName)
                                     ELSE AdhocDefn(pszLayerName, eType)
                   id    == Len(layers) + 1
               IN  /\ errs' = IF found THEN errs
                              ELSE Append(errs,
                                          Err("CE_Warning", "CPLE_AppDefined"))
                   /\ layers' = Append(layers, layer)
                   /\ nLayers' = nLayers + 1
                   /\ papoLayers' = RegistryAppend(papoLayers, id)
                   /\ ret' = id
    /\ UNCHANGED <<phase, pszName, imd, poReader, fpOutput, listLayer, io,
                   entry>>

(* ---------------------------- TestCapability --------------------------- *)

CapabilityResult_noZ(pszCap) ==
    IF EQUAL(pszCap, "CreateLayer") THEN TRUE_
    ELSE IF EQUAL(pszCap, "CurveGeometries") THEN TRUE_
    ELSE FALSE_
CapabilityResult(pszCap) ==
    IF EQUAL(pszCap, "CreateLayer") THEN TRUE_
    ELSE IF EQUAL(pszCap, "CurveGeometries") THEN TRUE_
    ELSE IF EQUAL(pszCap, "ZGeometries") THEN TRUE_
    ELSE FALSE_

TestCapability(pszCap) ==
    /\ phase # "destroyed"
    /\ call' = Call("TestCapability", <<pszCap>>, 0, <<>>)
    /\ ret' = CapabilityResult(pszCap)
    /\ UNCHANGED <<phase, pszName, imd, poReader, fpOutput, nLayers,
                   papoLayers, listLayer, layers, io, errs, entry>>

(* ------------------------------- GetLayer ------------------------------ *)

\* the walk of listLayer: i counts the steps taken, the iterator is at i + 1
RECURSIVE GetLayerWalk(_, _, _)
GetLayerWalk(list, iLayer, i) ==
    IF i < iLayer /\ i < Len(list)
    THEN GetLayerWalk(list, iLayer, i + 1)
    ELSE IF i = iLayer /\ i < Len(list) THEN list[i + 1] ELSE 0

GetLayer(iLayer) ==
    /\ phase # "destroyed"
    /\ call' = Call("GetLayer", <<>>, iLayer, <<>>)
    /\ ret' = GetLayerWalk(listLayer, iLayer, 0)
    /\ UNCHANGED <<phase, pszName, imd, poReader, fpOutput, nLayers,
                   papoLayers, listLayer, layers, io, errs, entry>>

(* ------------------------------ destructor ----------------------------- *)

\* the closing framing
Footer_swapped(catalog) ==
    << <<"close", "DATASECTION">>, <<"close", catalog.mainBasketName>>,
       <<"close", "TRANSFER">> >>
Footer(catalog) ==
    << <<"close", catalog.mainBasketName>>, <<"close", "DATASECTION">>,
       <<"close", "TRANSFER">> >>

\* delete papoLayers[i] for i < nLayers
DeleteLayers(registry, n) ==
    [k \in 1..n |-> Ev("delete", "layer", <<>>, registry[k])]

\* the if (fpOutput != nullptr) block
CloseOutput_always(fp, catalog) ==
    Writes(fp, Footer(catalog)) \o << Ev("close", fp, <<>>, 0) >>
CloseOutput_noRelease(fp, catalog) ==
    IF fp # NULL THEN Writes(fp, Footer(catalog)) ELSE <<>>
CloseOutput(fp, catalog) ==
    IF fp # NULL
    THEN Writes(fp, Footer(catalog)) \o << Ev("close", fp, <<>>, 0) >>
    ELSE <<>>

\* the statements of the destructor, in order
DestructorSteps_catalogFirst(registry, n, fp, catalog, reader) ==
    DeleteLayers(registry, n)
    \o << Ev("delete", "imd", <<>>, 0) >>
    \o CloseOutput(fp, catalog)
    \o << Ev("DestroyILI2Reader", reader, <<>>, 0),
          Ev("CPLFree", "pszName", <<>>, 0) >>
DestructorSteps(registry, n, fp, catalog, reader) ==
    DeleteLayers(registry, n)
    \o CloseOutput(fp, catalog)
    \o << Ev("DestroyILI2Reader", reader, <<>>, 0),
          Ev("delete", "imd", <<>>, 0),
          Ev("CPLFree", "pszName", <<>>, 0) >>

Destructor ==
    /\ phase # "destroyed"
    /\ phase' = "destroyed"
    /\ call' = Call("dtor", <<>>, 0, <<>>)
    /\ ret' = 0
    /\ layers' = [k \in 1..Len(layers) |->
                    IF \E j \in 1..nLayers : papoLayers[j] = k
                    THEN [layers[k] EXCEPT !.alive = FALSE]
                    ELSE layers[k]]
    /\ io' = io \o DestructorSteps(papoLayers, nLayers, fpOutput, imd, poReader)
    /\ UNCHANGED <<pszName, imd, poReader, fpOutput, nLayers, papoLayers,
                   listLayer, errs, entry>>

(* --------------------------------- Open -------------------------------- *)

\* the MODEL open option: absent, empty or a model path
ModelOptions ==
    { [set |-> FALSE, v |-> <<>>], [set |-> TRUE, v |-> <<>>],
      [set |-> TRUE, v |-> ModelPath] }

\* papszOpenOptionsIn as text: empty, or MODEL= followed by the value
OptionText(option) == IF option.set THEN <<"MODEL=">> \o option.v ELSE <<>>

\* n filler bytes
Pad(n) == [k \in 1..n |-> "x"]

\* contents of the file being probed
FileContents ==
    { lead \o Pad(n) \o tail :
        lead \in { <<>>, <<"<">>, <<" ", "<">>, <<"x">> },
        n \in 0..HeaderSize,
        tail \in { <<>>, Marker, <<"i">>, <<"2", "i">> } }

\* VSIFReadL into szHeader followed by the '\0' that ends the string
ReadHeader(content) ==
    LET nLen == IF Len(content) < HeaderSize THEN Len(content) ELSE HeaderSize
    IN  IF nLen = HeaderSize
        THEN SubSeq(content, 1, HeaderSize - 1)
        ELSE SubSeq(content, 1, nLen)

\* szHeader[0] != '<' || strstr(szHeader, "interlis.ch/INTERLIS2") == nullptr
HeaderRejected_firstByteOnly(szHeader) ==
    \/ Len(szHeader) = 0
    \/ szHeader[1] # "<"
HeaderRejected(szHeader) ==
    \/ Len(szHeader) = 0
    \/ szHeader[1] # "<"
    \/ ~Contains(szHeader, Marker)

\* a layer object the reader hands out
ReaderLayer ==
    [name |-> "T1", defn |-> "reader", geomType |-> "wkbMultiPolygon",
     nFields |-> 2, reset |-> FALSE, alive |-> TRUE]

\* (*layerIt)->ResetReading() for every layer of the list
ResetAll_none(objs, list) == objs
ResetAll(objs, list) ==
    [k \in 1..Len(objs) |->
       IF \E j \in 1..Len(list) : list[j] = k
       THEN [objs[k] EXCEPT !.reset = TRUE]
       ELSE objs[k]]

ResetEvents(list) ==
    [k \in 1..Len(list) |-> Ev("ResetReading", "layer", <<>>, list[k])]

\* nCount == 0: the address holds no path at all
NothingToOpen(filenames) == Len(filenames) = 0

\* if (!bTestOpen) CPLError(CE_Failure, CPLE_OpenFailed, ...)
ReportsOpenFailure_always(bTestOpen) == TRUE
ReportsOpenFailure(bTestOpen) == bTestOpen = 0

\* VSIFOpenL(pszName, "r") and, when probing, the VSIFReadL of the header
ProbeSteps(base, bTestOpen) ==
    << Ev("open", "fp", base \o <<"r">>, 0) >>
    \o (IF bTestOpen # 0 THEN << Ev("read", "fp", <<>>, HeaderSize) >> ELSE <<>>)

\* the signature mismatch branch: VSIFCloseL(fp); return FALSE
RejectSteps_leak(probe) == probe
RejectSteps(probe) == probe \o << Ev("close", "fp", <<>>, 0) >>

\* VSIFCloseL(fp); poReader = CreateILI2Reader()
InstantiateSteps(probe, reader) ==
    probe \o << Ev("close", "fp", <<>>, 0),
                Ev("CreateILI2Reader", reader, <<>>, 0) >>

\* !osModelFilename.empty()
LoadsModel(model) == model # <<>>

\* what Open does with the reader: model load, data scan, cursor resets
ReaderSteps_scanFirst(base, model, ids) ==
    << Ev("SetSourceFile", "reader", base, 0),
       Ev("SaveClasses", "reader", base, 0) >>
    \o (IF LoadsModel(model)
        THEN << Ev("ReadModel", "reader", model, 0) >>
        ELSE <<>>)
    \o << Ev("GetLayers", "reader", <<>>, Len(ids)) >>
    \o ResetEvents(ids)
ReaderSteps(base, model, ids) ==
    (IF LoadsModel(model)
     THEN << Ev("ReadModel", "reader", model, 0) >>
     ELSE <<>>)
    \o << Ev("SetSourceFile", "reader", base, 0),
          Ev("SaveClasses", "reader", base, 0),
          Ev("GetLayers", "reader", <<>>, Len(ids)) >>
    \o ResetEvents(ids)

\* the steps of Open after the source file was opened and accepted
OpenBody(base, model, probe) ==
    \E reader \in {NULL, "reader"} :
      /\ poReader' = reader
      /\ IF reader = NULL
         THEN /\ io' = io \o InstantiateSteps(probe, reader)
              /\ errs' = Append(errs, Err("CE_Failure", "CPLE_AppDefined"))
              /\ ret' = FALSE_
              /\ UNCHANGED <<imd, listLayer, layers>>
         ELSE \E catalog \in (IF LoadsModel(model) THEN Catalogs ELSE {imd}),
                 K \in 0..MaxReadLayers :
              LET ids == [k \in 1..K |-> Len(layers) + k]
              IN  /\ imd' = catalog
                  /\ listLayer' = ids
                  /\ layers' = ResetAll(layers \o [k \in 1..K |-> ReaderLayer],
                                        ids)
                  /\ io' = io \o InstantiateSteps(probe, reader)
                              \o ReaderSteps(base, model, ids)
                  /\ ret' = TRUE_
                  /\ UNCHANGED errs

Open(pszNewName, option, bTestOpen) ==
    /\ phase = "constructed"
    /\ phase' = "used"
    /\ LET filenames == CSLTokenizeString2(pszNewName)
           base  == IF option.set THEN pszNewName ELSE FirstToken(filenames)
           model == IF option.set THEN option.v ELSE SecondToken(filenames)
       IN  IF ~option.set /\ NothingToOpen(filenames)
           THEN /\ call' = Call("Open", pszNewName, bTestOpen, <<>>)
                /\ ret' = FALSE_
                /\ UNCHANGED <<pszName, imd, poReader, listLayer, layers, io,
                               errs>>
           ELSE /\ pszName' = base
                /\ \E opened \in BOOLEAN :
                     IF ~opened
                     THEN /\ call' = Call("Open", pszNewName, bTestOpen, <<>>)
                          /\ io' = Append(io, Ev("openfail", NULL,
                                                  base \o <<"r">>, 0))
                          /\ errs' = IF ReportsOpenFailure(bTestOpen)
                                     THEN Append(errs, Err("CE_Failure",
                                                           "CPLE_OpenFailed"))
                                     ELSE errs
                          /\ ret' = FALSE_
                          /\ UNCHANGED <<imd, poReader, listLayer, layers>>
                     ELSE IF bTestOpen # 0
                          THEN \E content \in FileContents :
                               /\ call' = Call("Open", pszNewName, bTestOpen,
                                               content)
                               /\ IF HeaderRejected(ReadHeader(content))
                                  THEN /\ io' = io \o RejectSteps(
                                                  ProbeSteps(base, bTestOpen))
                                       /\ ret' = FALSE_
                                       /\ UNCHANGED <<imd, poReader, listLayer,
                                                      layers, errs>>
                                  ELSE OpenBody(base, model,
                                                ProbeSteps(base, bTestOpen))
                          ELSE /\ call' = Call("Open", pszNewName, bTestOpen,
                                               <<>>)
                               /\ OpenBody(base, model,
                                           ProbeSteps(base, bTestOpen))
    /\ entry' = Entry("Open", pszNewName, OptionText(option), bTestOpen, ret')
    /\ UNCHANGED <<fpOutput, nLayers, papoLayers>>

(* ------------------------------ behaviours ----------------------------- *)

\* A container is constructed, given at most one Open or Create call (the
\* guard phase = "constructed" of both), queried and extended any number of
\* times, and destroyed once; nothing is called on a destroyed container.

Next ==
    \/ \E a \in OpenAddresses, o \in ModelOptions, t \in {0, 1} : Open(a, o, t)
    \/ \E a \in Addresses : Create(a)
    \/ \E n \in LayerNames, g \in GeomTypes \cup {"nullptr"} : ICreateLayer(n, g)
    \/ \E c \in CapNames : TestCapability(c)
    \/ \E i \in Indices : GetLayer(i)
    \/ Destructor

Spec == Init /\ [][Next]_vars

(* ----------------------- reading the histories ------------------------- *)

\* the events of io that satisfy a test, in order
Events(Test(_)) == SelectSeq(io, Test)

IsWrite(e) == e.op = "write"
IsOutOpen(e) == e.op = "open" /\ e.h = "out"
IsOutClose(e) == e.op = "close" /\ e.h = "out"
IsFileIO(e) == e.op \in {"open", "openfail", "read", "write", "close", "ReadModel"}

\* the tokens written so far: the output document
Output == LET w == Events(IsWrite) IN [k \in 1..Len(w) |-> w[k].a]

\* how many times a token occurs in a token sequence
Count(tokens, t) == Cardinality({k \in 1..Len(tokens) : tokens[k] = t})

\* Create wrote the opening framing
FramingEmitted == Count(Output, <<"open", "TRANSFER">>) > 0

\* the three tokens of the closing footer
FooterTokens ==
    { <<"close", imd.mainBasketName>>, <<"close", "DATASECTION">>,
      <<"close", "TRANSFER">> }

(* -------------------------------- claims ------------------------------- *)

\* C1: over any run ended by teardown, each token of the closing footer
\* (basket close, DATASECTION close, TRANSFER close) is written exactly once
\* if Create emitted the opening framing and not at all if it did not; before
\* teardown no operation has written any of them.
C1_FooterOnceOnlyAtTeardown ==
    \A t \in FooterTokens :
      /\ phase # "destroyed" => Count(Output, t) = 0
      /\ phase = "destroyed" =>
           Count(Output, t) = (IF FramingEmitted THEN 1 ELSE 0)

C1_Witness ==
    /\ phase = "destroyed"
    /\ FramingEmitted
    /\ nLayers > 0
    /\ \A t \in FooterTokens : Count(Output, t) = 1

\* C2: right after a successful Create the history is: the output opened,
\* then the model catalog loaded, then only writes to the output, which are
\* prolog, TRANSFER open, HEADERSECTION open, MODELS open, one MODEL entry per
\* descriptor in catalog order, MODELS close, HEADERSECTION close, DATASECTION
\* open, and the basket open tag named and identified by the main-basket name.
C2_OpeningFramingOrder ==
    (call.op = "Create" /\ ret = TRUE_) =>
      LET N == Len(imd.modelInfos)
          w == Output
      IN  /\ Len(io) = 2 + Len(w)
          /\ IsOutOpen(io[1])
          /\ io[2].op = "ReadModel"
          /\ \A k \in 3..Len(io) : IsWrite(io[k]) /\ io[k].h = "out"
          /\ Len(w) = 8 + N
          /\ w[1] = <<"prolog", "xml">>
          /\ w[2] = <<"open", "TRANSFER">>
          /\ w[3] = <<"open", "HEADERSECTION">>
          /\ w[4] = <<"open", "MODELS">>
          /\ \A k \in 1..N : w[4 + k] = <<"empty", "MODEL", imd.modelInfos[k]>>
          /\ w[5 + N] = <<"close", "MODELS">>
          /\ w[6 + N] = <<"close", "HEADERSECTION">>
          /\ w[7 + N] = <<"open", "DATASECTION">>
          /\ w[8 + N] = <<"open", imd.mainBasketName, imd.mainBasketName>>

C2_Witness ==
    /\ call.op = "Create"
    /\ ret = TRUE_
    /\ Len(imd.modelInfos) = 2
    /\ imd.modelInfos[1] # imd.modelInfos[2]
    /\ Count(Output, <<"empty", "MODEL", imd.modelInfos[2]>>) = 1

\* C3: after teardown of a container in write mode, whatever the number of
\* layers created, the last three writes are basket close, DATASECTION close
\* and TRANSFER close in that order, the release of the output stream follows
\* them immediately, and nothing is written after the release.
C3_ClosingFramingThenRelease ==
    (phase = "destroyed" /\ fpOutput # NULL) =>
      \E c \in 4..Len(io) :
        /\ IsOutClose(io[c])
        /\ IsWrite(io[c - 3]) /\ io[c - 3].a = <<"close", imd.mainBasketName>>
        /\ IsWrite(io[c - 2]) /\ io[c - 2].a = <<"close", "DATASECTION">>
        /\ IsWrite(io[c - 1]) /\ io[c - 1].a = <<"close", "TRANSFER">>
        /\ \A k \in 1..Len(io) : IsWrite(io[k]) => k < c

C3_Witness ==
    /\ phase = "destroyed"
    /\ fpOutput # NULL
    /\ nLayers = 0
    /\ Len(Events(IsOutClose)) = 1


\* a token sequence is properly nested: every close tag closes the innermost
\* open element, empty-element tags sit inside an element, nothing stays open
RECURSIVE Nested(_, _)
Nested(tokens, stack) ==
    IF tokens = <<>>
    THEN stack = <<>>
    ELSE LET t == Head(tokens)
         IN  CASE t[1] = "prolog" -> stack = <<>> /\ Nested(Tail(tokens), stack)
               [] t[1] = "open" -> Nested(Tail(tokens), <<t[2]>> \o stack)
               [] t[1] = "empty" -> stack # <<>> /\ Nested(Tail(tokens), stack)
               [] t[1] = "close" ->
                    /\ stack # <<>>
                    /\ stack[1] = t[2]
                    /\ Nested(Tail(tokens), Tail(stack))
               [] OTHER -> FALSE

\* C4: after a successful Create and teardown, with any number of layers
\* created and any catalog, the document written is well formed: it starts
\* with the one prolog, its tags are properly nested, TRANSFER, HEADERSECTION,
\* MODELS, DATASECTION and the basket are each opened once and closed once,
\* the MODELS block holds exactly one MODEL entry per catalog descriptor and
\* nothing else, and the basket is empty and closed under the name it was
\* opened with.
C4_DocumentWellFormed ==
    (phase = "destroyed" /\ entry.op = "Create" /\ entry.ret = TRUE_) =>
      LET w == Output
          N == Len(imd.modelInfos)
          b == imd.mainBasketName
      IN  /\ Len(w) > 0
          /\ w[1] = <<"prolog", "xml">>
          /\ Count(w, <<"prolog", "xml">>) = 1
          /\ Nested(w, <<>>)
          /\ \A n \in {"TRANSFER", "HEADERSECTION", "MODELS", "DATASECTION"} :
               Count(w, <<"open", n>>) = 1 /\ Count(w, <<"close", n>>) = 1
          /\ Count(w, <<"open", b, b>>) = 1
          /\ Count(w, <<"close", b>>) = 1
          /\ Cardinality({k \in 1..Len(w) : w[k][1] = "empty"}) = N
          /\ \E i \in 1..Len(w), j \in 1..Len(w) :
               /\ w[i] = <<"open", "MODELS">>
               /\ w[j] = <<"close", "MODELS">>
               /\ j = i + N + 1
               /\ \A k \in (i + 1)..(j - 1) :
                    w[k] = <<"empty", "MODEL", imd.modelInfos[k - i]>>
          /\ \E k \in 1..(Len(w) - 1) :
               w[k] = <<"open", b, b>> /\ w[k + 1] = <<"close", b>>

C4_Witness ==
    /\ phase = "destroyed"
    /\ entry.op = "Create"
    /\ entry.ret = TRUE_
    /\ Len(imd.modelInfos) = 1
    /\ nLayers = 2
    /\ Nested(Output, <<>>)

\* the layer registry: the layers discovered by Open in read mode, the layers
\* created by ICreateLayer in write mode
Registry == IF fpOutput # NULL THEN papoLayers ELSE listLayer

\* C5: GetLayer(i) returns the layer created or discovered at position i for
\* every 0 <= i < K and not-found for every i >= K, K being the number of
\* layers of the registry, in read mode and in write mode alike.
C5_IndexStability ==
    (call.op = "GetLayer" /\ entry.ret = TRUE_) =>
      ret = (IF call.n < Len(Registry) THEN Registry[call.n + 1] ELSE 0)

\* C6: a Create whose address has exactly one path component fails with one
\* AppDefined failure and does no file I/O, then or later: no open attempt, no
\* model load, no write; the container never becomes writable, ICreateLayer
\* returns no layer and no layer is ever registered.
C6_CreateWithoutModelPath ==
    (entry.op = "Create" /\ Len(CSLTokenizeString2(entry.s)) = 1) =>
      /\ entry.ret = FALSE_
      /\ errs = << Err("CE_Failure", "CPLE_AppDefined") >>
      /\ Len(Events(IsFileIO)) = 0
      /\ fpOutput = NULL
      /\ nLayers = 0
      /\ papoLayers = <<>>
      /\ call.op = "ICreateLayer" => ret = 0

C6_Witness ==
    /\ entry.op = "Create"
    /\ entry.s = <<"out", ".xtf">>
    /\ phase = "destroyed"
    /\ errs = << Err("CE_Failure", "CPLE_AppDefined") >>

\* C7: an ICreateLayer call on a container that is not open for writing
\* returns no layer and changes nothing: registry, layer count, layer objects,
\* model catalog, output history and error history stay as they were.
C7_ICreateLayerFailsFast ==
    [][ (call'.op = "ICreateLayer" /\ fpOutput = NULL) =>
          /\ ret' = 0
          /\ UNCHANGED <<phase, pszName, imd, poReader, fpOutput, nLayers,
                         papoLayers, listLayer, layers, io, errs, entry>> ]_vars

C7_Witness ==
    /\ call.op = "ICreateLayer"
    /\ ret = 0
    /\ fpOutput = NULL
    /\ entry.op = "Open"
    /\ entry.ret = TRUE_
    /\ Len(listLayer) > 0

\* the layers of the registry that were given an ad-hoc schema
AdhocLayers == {k \in 1..Len(papoLayers) : layers[papoLayers[k]].defn = "adhoc"}

\* the warnings among the reported errors
Warnings == SelectSeq(errs, LAMBDA e : e.cls = "CE_Warning")

\* C8: on a writable container ICreateLayer returns a layer, registered last,
\* and leaves the container writable. If the name is absent from the catalog
\* the layer has a schema of its own with that name, no attribute fields and
\* the requested geometry type (none when no geometry field is given), and a
\* warning is the last error reported; if the name is in the catalog the layer
\* has the catalog's schema. Warnings are reported for ad-hoc layers only, one
\* each, and nothing but warnings is reported after a successful Create.
C8_FallbackDeterminism ==
    /\ fpOutput # NULL =>
         /\ Len(Warnings) = Cardinality(AdhocLayers)
         /\ Len(Warnings) = Len(errs)
    /\ (call.op = "ICreateLayer" /\ fpOutput # NULL) =>
         /\ ret # 0
         /\ papoLayers[nLayers] = ret
         /\ IF HasTableDefn(imd, call.s[1])
            THEN layers[ret] = TableDefn(call.s[1])
            ELSE /\ layers[ret].name = call.s[1]
                 /\ layers[ret].defn = "adhoc"
                 /\ layers[ret].nFields = 0
                 /\ layers[ret].geomType =
                      (IF call.s[2] = "nullptr" THEN "wkbNone" ELSE call.s[2])
                 /\ errs[Len(errs)] = Err("CE_Warning", "CPLE_AppDefined")

C8_Witness ==
    /\ call.op = "ICreateLayer"
    /\ fpOutput # NULL
    /\ ~HasTableDefn(imd, call.s[1])
    /\ call.s[2] = "wkbPoint"
    /\ layers[ret].geomType = "wkbPoint"
    /\ imd.tables # {}

\* C9: in write mode, before teardown, an ICreateLayer call adds exactly one
\* layer, a new one, at the last index and leaves every earlier entry and
\* every earlier layer object as it was; every other operation leaves the
\* registry and the layer objects unchanged.
C9_RegistryAppendOnly ==
    [][ (fpOutput # NULL /\ phase' # "destroyed") =>
          IF call'.op = "ICreateLayer"
          THEN /\ nLayers' = nLayers + 1
               /\ Len(papoLayers') = nLayers'
               /\ papoLayers'[nLayers'] = ret'
               /\ \A k \in 1..nLayers :
                    papoLayers'[k] = papoLayers[k] /\ papoLayers[k] # ret'
               /\ \A k \in 1..Len(layers) : layers'[k] = layers[k]
          ELSE UNCHANGED <<nLayers, papoLayers, layers>> ]_vars

\* two layers of one name are two records at two indices
C9_Witness ==
    /\ nLayers = 2
    /\ phase # "destroyed"
    /\ layers[papoLayers[1]].name = layers[papoLayers[2]].name
    /\ papoLayers[1] # papoLayers[2]

\* C10: an output stream is opened only by a successful Create, at most once;
\* until teardown it is not released; after teardown it has been released
\* exactly once, the release coming right after the write of the TRANSFER
\* close tag; without a successful Create no output stream is ever opened or
\* released.
C10_StreamReleasedOnce ==
    LET opens  == Len(Events(IsOutOpen))
        closes == Len(Events(IsOutClose))
    IN  /\ opens = (IF entry.op = "Create" /\ entry.ret = TRUE_ THEN 1 ELSE 0)
        /\ (fpOutput # NULL) <=> (opens = 1)
        /\ closes = (IF phase = "destroyed" THEN opens ELSE 0)
        /\ \A k \in 1..Len(io) :
             IsOutClose(io[k]) =>
               /\ k > 1
               /\ IsWrite(io[k - 1])
               /\ io[k - 1].a = <<"close", "TRANSFER">>

C10_Witness ==
    /\ phase = "destroyed"
    /\ Len(Events(IsOutOpen)) = 1
    /\ Len(Events(IsOutClose)) = 1
    /\ nLayers = 1

IsOpenFail(e) == e.op = "openfail"
IsReadModel(e) == e.op = "ReadModel"

\* C11: when Create could not open the output it has failed with exactly one
\* OpenFailed failure, and neither then nor later is the model catalog loaded,
\* anything written or any stream held: the catalog is as constructed, the
\* container is not writable and has no layers, and teardown writes nothing.
C11_CreateOpenFailed ==
    (entry.op = "Create" /\ Len(Events(IsOpenFail)) > 0) =>
      /\ entry.ret = FALSE_
      /\ errs = << Err("CE_Failure", "CPLE_OpenFailed") >>
      /\ Len(Events(IsOpenFail)) = 1
      /\ Len(Events(IsReadModel)) = 0
      /\ Len(Events(IsWrite)) = 0
      /\ Len(Events(IsOutOpen)) = 0
      /\ imd = EmptyCatalog
      /\ fpOutput = NULL
      /\ nLayers = 0
      /\ papoLayers = <<>>
      /\ listLayer = <<>>

C11_Witness ==
    /\ entry.op = "Create"
    /\ Len(Events(IsOpenFail)) = 1
    /\ phase = "destroyed"
    /\ errs = << Err("CE_Failure", "CPLE_OpenFailed") >>

IsProbeOpen(e) == e.op = "open" /\ e.h = "fp"
IsProbeClose(e) == e.op = "close" /\ e.h = "fp"
IsInstantiate(e) == e.op = "CreateILI2Reader"

\* C12: when Open could not open the data file it has failed, and one
\* OpenFailed failure was reported if the call was trusted, nothing if it was
\* probing. When a probing Open finds the signature check failing it returns
\* failure with no error reported, no reader instantiated, no model loaded
\* and no layer produced.
C12_OpenFailureReporting ==
    /\ (entry.op = "Open" /\ Len(Events(IsOpenFail)) > 0) =>
         /\ entry.ret = FALSE_
         /\ errs = (IF entry.n = 0
                    THEN << Err("CE_Failure", "CPLE_OpenFailed") >>
                    ELSE <<>>)
         /\ Len(Events(IsInstantiate)) = 0
         /\ listLayer = <<>>
    /\ (call.op = "Open" /\ call.n # 0 /\ Len(Events(IsProbeOpen)) > 0
          /\ HeaderRejected(ReadHeader(call.x))) =>
         /\ ret = FALSE_
         /\ errs = <<>>
         /\ Len(Events(IsInstantiate)) = 0
         /\ Len(Events(IsReadModel)) = 0
         /\ poReader = NULL
         /\ imd = EmptyCatalog
         /\ listLayer = <<>>
         /\ layers = <<>>

C12_Witness ==
    /\ entry.op = "Open"
    /\ entry.n = 0
    /\ Len(Events(IsOpenFail)) = 1
    /\ errs = << Err("CE_Failure", "CPLE_OpenFailed") >>
    /\ phase = "destroyed"

IsRead(e) == e.op = "read"

\* the format detection of Open let the file through: Open went on to
\* instantiate the reader
Accepted == Len(Events(IsInstantiate)) > 0

\* the first byte of a content that is not whitespace, "" if there is none
RECURSIVE FirstNonWhitespace(_)
FirstNonWhitespace(content) ==
    IF content = <<>> THEN ""
    ELSE IF Head(content) = " " THEN FirstNonWhitespace(Tail(content))
    ELSE Head(content)

\* the first n bytes of a content, all of it if it is shorter
Window(content, n) ==
    SubSeq(content, 1, IF Len(content) < n THEN Len(content) ELSE n)

\* a probing, respectively trusted, Open has just opened the data file
ProbedFile == call.op = "Open" /\ call.n # 0 /\ Len(Events(IsProbeOpen)) > 0
TrustedFile == call.op = "Open" /\ call.n = 0 /\ Len(Events(IsProbeOpen)) > 0

\* C13 as stated: a probing Open accepts the file exactly when its first
\* non-whitespace byte is '<' and the bytes read into the probe buffer hold
\* the namespace marker; a trusted Open reads no header and accepts.
C13_Original ==
    /\ ProbedFile =>
         (Accepted <=> /\ FirstNonWhitespace(call.x) = "<"
                       /\ Contains(Window(call.x, HeaderSize), Marker))
    /\ TrustedFile => Accepted /\ Len(Events(IsRead)) = 0

\* C13 amended: a probing Open accepts the file exactly when its very first
\* byte is '<' and the namespace marker lies wholly within the probe buffer
\* less its last byte (the first HeaderSize - 1 bytes of the file); a trusted
\* Open reads no header and accepts.
C13_FormatDetection ==
    /\ ProbedFile =>
         (Accepted <=> /\ Len(call.x) > 0
                       /\ call.x[1] = "<"
                       /\ Contains(Window(call.x, HeaderSize - 1), Marker))
    /\ TrustedFile => Accepted /\ Len(Events(IsRead)) = 0

\* a file of buffer size with leading '<' whose marker ends on the last byte
C13_Witness ==
    /\ ProbedFile
    /\ Len(call.x) = HeaderSize
    /\ call.x[1] = "<"
    /\ Contains(call.x, Marker)
    /\ ~Accepted

IsGetLayers(e) == e.op = "GetLayers"

\* C14: once Open has succeeded the container stays read-only and its layer
\* set stays what the reader returned: the same layers in the same order,
\* each with its read cursor reset; ICreateLayer returns no layer and
\* registers none; no output stream is opened and nothing is ever written,
\* teardown included.
C14_ReadOnlyAfterOpen ==
    (entry.op = "Open" /\ entry.ret = TRUE_) =>
      /\ Len(Events(IsGetLayers)) = 1
      /\ LET K == Events(IsGetLayers)[1].n
         IN  /\ Len(listLayer) = K
             /\ Len(layers) = K
             /\ \A k \in 1..K :
                  /\ listLayer[k] = k
                  /\ layers[k].reset
      /\ fpOutput = NULL
      /\ nLayers = 0
      /\ papoLayers = <<>>
      /\ call.op = "ICreateLayer" => ret = 0
      /\ Len(Events(IsOutOpen)) = 0
      /\ Len(Events(IsWrite)) = 0

C14_Witness ==
    /\ entry.op = "Open"
    /\ entry.ret = TRUE_
    /\ call.op = "ICreateLayer"
    /\ ret = 0
    /\ Len(listLayer) = 2
    /\ layers[listLayer[2]].reset

\* the names asked that spell create-layer, curve-geometries or Z-geometries
\* (capability names are compared without regard to letter case)
RecognizedCaps == {"CreateLayer", "createlayer", "CurveGeometries", "ZGeometries"}

\* C15: in whatever state the container is, a TestCapability call returns
\* true if the name is create-layer, curve-geometries or Z-geometries and
\* false for any other name, and changes nothing of the container.
C15_TestCapabilityPure ==
    [][ call'.op = "TestCapability" =>
          /\ ret' = (IF call'.s[1] \in RecognizedCaps THEN TRUE_ ELSE FALSE_)
          /\ UNCHANGED <<phase, pszName, imd, poReader, fpOutput, nLayers,
                         papoLayers, listLayer, layers, io, errs, entry>> ]_vars

C15_Witness ==
    /\ call.op = "TestCapability"
    /\ call.s = <<"ZGeometries">>
    /\ ret = TRUE_
    /\ entry.op = "Open"
    /\ entry.ret = FALSE_

IsOpenAttempt(e) == e.op \in {"open", "openfail"}

\* C16: an Open whose address, split at the commas, holds no path component
\* fails without any attempt to open a file, without a reader and without
\* layers, and the failure is reported as OpenFailed is: one OpenFailed
\* failure if the call was trusted, nothing if it was probing.
C16_EmptyAddressLikeOpenFailed ==
    (entry.op = "Open" /\ entry.opt = <<>>
       /\ Len(CSLTokenizeString2(entry.s)) = 0) =>
      /\ entry.ret = FALSE_
      /\ Len(Events(IsOpenAttempt)) = 0
      /\ Len(Events(IsInstantiate)) = 0
      /\ listLayer = <<>>
      /\ errs = (IF entry.n = 0
                 THEN << Err("CE_Failure", "CPLE_OpenFailed") >>
                 ELSE <<>>)

\* the path has a zip extension, in either letter case
HasZipExtension(name) == Len(name) > 0 /\ name[Len(name)] \in {".zip", ".ZIP"}

\* the path names something inside its archive
NamesEntry(name) == \E k \in 1..Len(name) : name[k] = "/"

\* the one open attempt io records, as <<name, mode>>
AttemptName(e) == SubSeq(e.a, 1, Len(e.a) - 1)
AttemptMode(e) == e.a[Len(e.a)]

\* C17 as stated, read for the Create calls that get as far as resolving the
\* output (their address has a model path): exactly one open attempt is made;
\* a path that begins with the stdout or the gzip marker is opened verbatim
\* for writing, a zip path with a bare zip extension gets /out.xtf appended,
\* a zip path that names an entry is opened verbatim, and any other path is
\* opened verbatim read-write-create.
C17_Original ==
    (entry.op = "Create" /\ Len(CSLTokenizeString2(entry.s)) > 1) =>
      LET name == FirstToken(CSLTokenizeString2(entry.s))
          tries == Events(IsOpenAttempt)
      IN  /\ Len(tries) = 1
          /\ IF STARTS_WITH(name, "/vsistdout/") \/ STARTS_WITH(name, "/vsigzip/")
             THEN AttemptName(tries[1]) = name /\ AttemptMode(tries[1]) = "wb"
             ELSE IF STARTS_WITH(name, "/vsizip/")
                  THEN IF NamesEntry(name)
                       THEN AttemptName(tries[1]) = name
                       ELSE HasZipExtension(name) =>
                              AttemptName(tries[1])
                                = name \o <<"/", "out", ".xtf">>
                  ELSE /\ AttemptName(tries[1]) = name
                       /\ AttemptMode(tries[1]) = "wb+"

\* C17 amended: a Create whose address has a model path makes exactly one
\* open attempt and any other Create makes none; a path that is exactly the
\* stdout marker or begins with the gzip marker is opened verbatim for
\* writing; a zip path whose extension is zip, in either letter case and
\* whether or not it names an entry, gets /out.xtf appended, and any other
\* zip path is opened verbatim; every other path is opened verbatim
\* read-write-create.
C17_OutputPathResolution ==
    entry.op = "Create" =>
      LET parts == CSLTokenizeString2(entry.s)
          name  == FirstToken(parts)
          tries == Events(IsOpenAttempt)
      IN  IF Len(parts) < 2
          THEN Len(tries) = 0
          ELSE /\ Len(tries) = 1
               /\ IF name = <<"/vsistdout/">> \/ STARTS_WITH(name, "/vsigzip/")
                  THEN /\ AttemptName(tries[1]) = name
                       /\ AttemptMode(tries[1]) = "wb"
                  ELSE IF STARTS_WITH(name, "/vsizip/")
                       THEN AttemptName(tries[1])
                              = (IF HasZipExtension(name)
                                 THEN name \o <<"/", "out", ".xtf">>
                                 ELSE name)
                       ELSE /\ AttemptName(tries[1]) = name
                            /\ AttemptMode(tries[1]) = "wb+"

C17_Witness ==
    /\ entry.op = "Create"
    /\ entry.ret = TRUE_
    /\ Len(Events(IsOpenAttempt)) = 1
    /\ AttemptName(Events(IsOpenAttempt)[1])
         = <<"/vsizip/", "a", ".ZIP", "/", "out", ".xtf">>

\* how often, and where first, an operation occurs in io
Times(op) == Cardinality({k \in 1..Len(io) : io[k].op = op})
Pos(op) ==
    CHOOSE k \in 1..Len(io) :
      io[k].op = op /\ \A j \in 1..(k - 1) : io[j].op # op

\* the model path an Open call resolves: the value of the MODEL option if
\* the option is given, else the second part of the address
ResolvedModel ==
    IF entry.opt # <<>>
    THEN Tail(entry.opt)
    ELSE LET parts == CSLTokenizeString2(entry.s)
         IN  IF Len(parts) > 1 THEN parts[2] ELSE <<>>

\* C18: in an Open that gets past format detection the reader is instantiated
\* once, after the probe handle was closed. If the reader could not be
\* constructed, Open has failed with one AppDefined failure (probing or not),
\* no model load, no scan and no layers. Otherwise the model is loaded exactly
\* when a model path was resolved, from that path and before the data scan
\* (SetSourceFile, SaveClasses, GetLayers), and every cursor reset, one per
\* layer, comes after the scan.
C18_OpenStepOrder ==
    (entry.op = "Open" /\ Accepted) =>
      /\ Times("CreateILI2Reader") = 1
      /\ Len(Events(IsProbeClose)) = 1
      /\ \E c \in 1..Len(io) : IsProbeClose(io[c]) /\ c < Pos("CreateILI2Reader")
      /\ IF io[Pos("CreateILI2Reader")].h = NULL
         THEN /\ entry.ret = FALSE_
              /\ errs = << Err("CE_Failure", "CPLE_AppDefined") >>
              /\ Times("ReadModel") = 0
              /\ Times("SetSourceFile") = 0
              /\ Times("SaveClasses") = 0
              /\ Times("GetLayers") = 0
              /\ listLayer = <<>>
              /\ layers = <<>>
         ELSE /\ entry.ret = TRUE_
              /\ Times("ReadModel") = (IF ResolvedModel # <<>> THEN 1 ELSE 0)
              /\ Times("SetSourceFile") = 1
              /\ Times("SaveClasses") = 1
              /\ Times("GetLayers") = 1
              /\ Times("ResetReading") = Len(listLayer)
              /\ Pos("CreateILI2Reader") < Pos("SetSourceFile")
              /\ Pos("SetSourceFile") < Pos("SaveClasses")
              /\ Pos("SaveClasses") < Pos("GetLayers")
              /\ ResolvedModel # <<>> =>
                   /\ io[Pos("ReadModel")].a = ResolvedModel
                   /\ Pos("CreateILI2Reader") < Pos("ReadModel")
                   /\ Pos("ReadModel") < Pos("SetSourceFile")
              /\ \A k \in 1..Len(io) :
                   io[k].op = "ResetReading" => Pos("GetLayers") < k
              /\ \A j \in 1..Len(listLayer) :
                   \E k \in 1..Len(io) :
                     io[k].op = "ResetReading" /\ io[k].n = listLayer[j]

C18_Witness ==
    /\ entry.op = "Open"
    /\ entry.ret = TRUE_
    /\ entry.opt = <<"MODEL=">> \o ModelPath
    /\ Times("ReadModel") = 1
    /\ Len(listLayer) = 2
    /\ Times("ResetReading") = 2

\* C19: after an Open the probe handle, if it was opened, has been closed
\* exactly once, after its opening and reading and before any instantiation
\* of the reader; a handle that could not be opened is never closed; and
\* nothing later, teardown included, closes it again.
C19_ProbeHandleClosedOnce ==
    entry.op = "Open" =>
      /\ Len(Events(IsProbeOpen)) <= 1
      /\ Len(Events(IsProbeClose)) = Len(Events(IsProbeOpen))
      /\ Len(Events(IsOpenFail)) > 0 => Len(Events(IsProbeOpen)) = 0
      /\ \A c \in 1..Len(io) :
           IsProbeClose(io[c]) =>
             /\ \E o \in 1..(c - 1) : IsProbeOpen(io[o])
             /\ \A k \in 1..Len(io) :
                  (io[k].h = "fp" /\ k # c) => k < c
             /\ \A k \in 1..Len(io) : IsInstantiate(io[k]) => c < k

\* a probing Open that read the header, rejected it and closed the handle
C19_Witness ==
    /\ entry.op = "Open"
    /\ entry.n # 0
    /\ entry.ret = FALSE_
    /\ Len(Events(IsRead)) = 1
    /\ Len(Events(IsProbeOpen)) = 1
    /\ Len(Events(IsProbeClose)) = 1
    /\ ~Accepted
    /\ phase = "destroyed"

\* the layer records made by ICreateLayer, one per successful call
WriteLayers == {k \in 1..Len(layers) : layers[k].defn # "reader"}

IsDeleteLayer(e) == e.op = "delete" /\ e.h = "layer"
IsDeleteCatalog(e) == e.op = "delete" /\ e.h = "imd"
IsDestroyReader(e) == e.op = "DestroyILI2Reader"

\* the basket names of the open tags and of the close tags of the basket
OpenedBaskets ==
    {Output[k][2] : k \in {j \in 1..Len(Output) :
                             Output[j][1] = "open" /\ Len(Output[j]) = 3}}
ClosedBaskets ==
    {Output[k][2] : k \in {j \in 1..Len(Output) :
                             /\ Output[j][1] = "close"
                             /\ Output[j][2] \notin {"MODELS", "HEADERSECTION",
                                                     "DATASECTION", "TRANSFER"}}}

\* C20: after teardown every layer record made by ICreateLayer has been
\* released exactly once and nothing else was released as a layer, so the
\* number released is the number of successful ICreateLayer calls; the
\* catalog and the reader handle were released once each, after every write
\* to the output and after the release of the stream; and if Create wrote the
\* opening framing the basket named by the close tag is the one named by the
\* open tag, whatever the number of layers.
C20_TeardownOrder ==
    phase = "destroyed" =>
      /\ Len(Events(IsDeleteLayer)) = Cardinality(WriteLayers)
      /\ \A k \in WriteLayers :
           /\ Cardinality({j \in 1..Len(io) :
                             IsDeleteLayer(io[j]) /\ io[j].n = k}) = 1
           /\ ~layers[k].alive
      /\ Len(Events(IsDeleteCatalog)) = 1
      /\ Len(Events(IsDestroyReader)) = 1
      /\ \A r \in 1..Len(io) :
           (IsDeleteCatalog(io[r]) \/ IsDestroyReader(io[r])) =>
             \A k \in 1..Len(io) :
               (IsWrite(io[k]) \/ IsOutClose(io[k])) => k < r
      /\ FramingEmitted =>
           /\ Len(Events(IsOutClose)) = 1
           /\ Cardinality(OpenedBaskets) = 1
           /\ ClosedBaskets = OpenedBaskets

\* a torn down container on which Create succeeded and two layers were made
C20_Witness ==
    /\ phase = "destroyed"
    /\ entry.op = "Create"
    /\ FramingEmitted
    /\ Cardinality(WriteLayers) = 2
    /\ Len(Events(IsDeleteLayer)) = 2
    /\ ClosedBaskets = {"M.Topic"}

=============================================================================
